---- MODULE Spec2Model ----
(***************************************************************************)
(* Model of scripts/export_plotnine_fits.py: the per-subset extraction of  *)
(* smooth curves (extract_smooth_data) and the loop, summary, combination  *)
(* and export of main().                                                   *)
(*                                                                         *)
(* Reals are scaled to integers: fitted values and the y limits are in     *)
(* tenths (0.4 -> 4, 1.0 -> 10).  The x data of a drawn line is the base-10 *)
(* logarithm of train_label_size; a logarithm carries one decimal digit    *)
(* here (it is held in tenths, 2.7 -> 27), so that the conversion to the   *)
(* log scale and back rounds, as it does in floating point.                *)
(***************************************************************************)
EXTENDS Integers, Sequences, FiniteSets, TLC

VARIABLES
    combined_df,         \* the rows read from DATA_FILE
    pc,                  \* position in main(): "loop", "done" or "crashed"
    pos,                 \* index of the next (group, var, color) combination
    all_predictions,     \* list of the per-subset prediction frames
    total_combinations,  \* counter of attempted combinations
    successful,          \* counter of combinations that returned a frame
    predictions_df,      \* the combined frame (rows written to OUTPUT_FILE)
    written,             \* TRUE once to_csv has written OUTPUT_FILE
    ret,                 \* return value of main(): -1 while it runs
    log,                 \* what has been printed, in order
    attempts             \* history: what each call of extract_smooth_data was given

vars == <<combined_df, pc, pos, all_predictions, total_combinations, successful,
          predictions_df, written, ret, log, attempts>>

----------------------------------------------------------------------------
(* Bounds of the model *)

\* largest number of rows in the input file
MaxRows == 6
\* largest number of points drawn in one figure (over all its lines)
MaxPoints == 2
\* largest number of lines on the axes of one figure
MaxLines == 2

----------------------------------------------------------------------------
(* Program constants *)

\* Y_MIN = 0.4 and Y_MAX = 1.0, in tenths
Y_MIN == 4
Y_MAX == 10
\* the minimum subset size of extract_smooth_data (len(subset_data) < 3)
MIN_ROWS == 3

----------------------------------------------------------------------------
(* Input data *)

\* the (plot_group, variable, color_var) keys that rows of the input carry
Keys == { <<"Windows", "Precision", "No Ears">>,
          <<"Windows", "F1-score", "All Keypoints">>,
          <<"Named Keypoints", "Precision", "No Ears">> }

\* Python compares strings by code point: the names above in ascending order.
Collation == <<"All Keypoints", "F1-score", "Named Keypoints", "No Ears",
               "Precision", "Windows">>

Rank(s) == CHOOSE i \in 1..Len(Collation) : Collation[i] = s

\* train_label_size values of a block of rows that share one key
Shapes == { <<10, 500>>, <<10, 10, 500>>, <<0, 10, 500>> }

\* 10^n for n = 0..4
Int10(n) == <<1, 10, 100, 1000, 10000>>[n + 1]

\* 10^(k/10) for k = 0..9, in thousandths
Frac10 == <<1000, 1259, 1585, 1995, 2512, 3162, 3981, 5012, 6310, 7943>>

\* 10^(t/10) in thousandths, t a logarithm in tenths
Pow10Milli(t) == Frac10[(t % 10) + 1] * Int10(t \div 10)

\* variant: the x data is taken as it is, without the conversion back
log_scale_kept(t) == (t + 5) \div 10

\* 10**x_data: the value of a logarithm t (in tenths), rounded to the unit
Pow10(t) == (Pow10Milli(t) + 500) \div 1000

\* the integer part of log10 of x >= 1
RECURSIVE Floor10(_)
Floor10(x) == IF x < 10 THEN 0 ELSE 1 + Floor10(x \div 10)

\* log10 of x, rounded to the nearest tenth, is at least t tenths, is at most
\* t tenths: t is the nearest when 10^((t - 0.5)/10) <= x < 10^((t + 0.5)/10),
\* and 10^0.05 = 1.122
LogAtLeast(x, t) == Pow10Milli(t) <= x * 1122
LogAtMost(x, t) == Pow10Milli(t + 1) > x * 1122

\* scale_x_log10: log10 of x >= 1 rounded to the nearest tenth, in tenths
Log10(x) == CHOOSE t \in (10 * Floor10(x))..(10 * Floor10(x) + 10) :
                LogAtLeast(x, t) /\ LogAtMost(x, t)

Observation(g, v, c, x) ==
    [plot_group |-> g, variable |-> v, color_var |-> c,
     train_label_size |-> x, value |-> 7]

RECURSIVE Block(_, _, _, _)
Block(g, v, c, xs) ==
    IF xs = <<>> THEN <<>>
    ELSE <<Observation(g, v, c, Head(xs))>> \o Block(g, v, c, Tail(xs))

Blocks == { Block(k[1], k[2], k[3], xs) : k \in Keys, xs \in Shapes }

RECURSIVE Flatten(_)
Flatten(bs) == IF bs = <<>> THEN <<>> ELSE Head(bs) \o Flatten(Tail(bs))

\* the input files of at most n rows: blocks of rows, one after the other
RECURSIVE DatasetsUpTo(_)
DatasetsUpTo(n) ==
    { <<>> } \cup
    UNION { { b \o rest : rest \in DatasetsUpTo(n - Len(b)) } :
            b \in { bb \in Blocks : Len(bb) <= n } }

Datasets == DatasetsUpTo(MaxRows)

----------------------------------------------------------------------------
(* What p.draw() can produce: an exception, or a figure whose axes carry   *)
(* lines of (x_data, y_data) points.                                       *)

\* the points a line can carry: x is on the log scale, at either end of the
\* grid that the smoother lays over the observed range (log10 of the least
\* and of the greatest positive train_label_size), y is the fitted value in
\* tenths (0.3 and 1.1 lie outside the y limits, 0.4 and 1.0 on them)
CurvePoints ==
    { [x |-> Log10(10), y |-> 3], [x |-> Log10(10), y |-> 4],
      [x |-> Log10(10), y |-> 10],
      [x |-> Log10(500), y |-> 4], [x |-> Log10(500), y |-> 11] }

RECURSIVE LineSeqs(_, _)
LineSeqs(k, budget) ==
    IF k = 0 THEN { <<>> }
    ELSE UNION { { <<l>> \o rest : l \in [1..n -> CurvePoints],
                                   rest \in LineSeqs(k - 1, budget - n) } :
                 n \in 0..budget }

Raised == [raises |-> TRUE, axes |-> <<>>]

Figures ==
    { [raises |-> FALSE, axes |-> <<>>] } \cup
    { [raises |-> FALSE, axes |-> <<ls>>] :
        ls \in UNION { LineSeqs(k, MaxPoints) : k \in 0..MaxLines } }

DrawOutcomes == { Raised } \cup Figures

----------------------------------------------------------------------------
(* pandas helpers *)

None == [isNone |-> TRUE, rows |-> <<>>]
Frame(rows) == [isNone |-> FALSE, rows |-> rows]

Range(s) == { s[i] : i \in 1..Len(s) }

RECURSIVE Column(_, _)
Column(df, name) ==
    IF df = <<>> THEN <<>> ELSE <<Head(df)[name]>> \o Column(Tail(df), name)

\* variant: np.unique(), the distinct values in ascending order
unique_sorted(s) ==
    [i \in 1..Cardinality(Range(s)) |->
        CHOOSE v \in Range(s) :
            Cardinality({ w \in Range(s) : Rank(w) < Rank(v) }) = i - 1]

\* Series.unique(): the distinct values in order of first appearance
RECURSIVE unique(_)
unique(s) ==
    IF s = <<>> THEN <<>>
    ELSE LET u == unique(SubSeq(s, 1, Len(s) - 1))
         IN  IF s[Len(s)] \in Range(u) THEN u ELSE Append(u, s[Len(s)])

\* pd.concat(frames, ignore_index=True)
concat(frames) == Flatten(frames)

----------------------------------------------------------------------------
(* main(): the order of the nested loops over group, var and color *)

group_data(df, g) == LET Test(r) == r.plot_group = g IN SelectSeq(df, Test)

\* for color in unique_colors
RECURSIVE ColorLoop(_, _, _)
ColorLoop(g, var, colors) ==
    IF colors = <<>> THEN <<>>
    ELSE << <<g, var, Head(colors)>> >> \o ColorLoop(g, var, Tail(colors))

\* for var in unique_vars
RECURSIVE VarLoop(_, _, _)
VarLoop(g, vs, colors) ==
    IF vs = <<>> THEN <<>>
    ELSE ColorLoop(g, Head(vs), colors) \o VarLoop(g, Tail(vs), colors)

\* for group in all_plot_groups
RECURSIVE GroupLoop(_, _)
GroupLoop(df, groups) ==
    IF groups = <<>> THEN <<>>
    ELSE LET gd == group_data(df, Head(groups))
         IN  VarLoop(Head(groups), unique(Column(gd, "variable")),
                     unique(Column(gd, "color_var")))
             \o GroupLoop(df, Tail(groups))

\* the (group, var, color) combinations in the order main() attempts them
Combinations(df) == GroupLoop(df, unique(Column(df, "plot_group")))

subset_data(df, key) ==
    LET Test(r) == r.variable = key[2] /\ r.color_var = key[3]
    IN  SelectSeq(group_data(df, key[1]), Test)

----------------------------------------------------------------------------
(* extract_smooth_data *)

\* variant: the size test is off by one
too_small_below_two(subset) == Len(subset) < MIN_ROWS - 1

\* variant: a subset with a non-positive x is passed over like a small one
too_small_or_nonpositive(subset) ==
    Len(subset) < MIN_ROWS \/ \E i \in 1..Len(subset) : subset[i].train_label_size <= 0

\* if len(subset_data) < 3: return None
too_small(subset) == Len(subset) < MIN_ROWS

\* variant: the upper limit is not tested
valid_mask_lower_only(y) == y >= Y_MIN

\* valid_mask = (y_data >= Y_MIN) & (y_data <= Y_MAX)
valid_mask(y) == y >= Y_MIN /\ y <= Y_MAX

masked(line) == LET Test(p) == valid_mask(p.y) IN SelectSeq(line, Test)

\* the for loop over ax.get_lines(): the index of the first line that has
\* data and at least one point in the valid y range, 0 when there is none
RECURSIVE scan_lines(_, _)
scan_lines(lines, i) ==
    IF i > Len(lines) THEN 0
    ELSE IF Len(lines[i]) > 0 /\ Len(masked(lines[i])) > 0 THEN i
    ELSE scan_lines(lines, i + 1)

\* variant: only the first line of the axes is looked at
first_line_only(lines) ==
    IF Len(lines) > 0 /\ Len(lines[1]) > 0 /\ Len(masked(lines[1])) > 0 THEN 1 ELSE 0

first_usable_line(lines) == scan_lines(lines, 1)

\* pred_df: x converted back from the log scale, tagged with the subset's key
RECURSIVE tag_rows(_, _, _, _)
tag_rows(kept, color_var, variable, plot_group) ==
    IF kept = <<>> THEN <<>>
    ELSE << [train_label_size |-> Pow10(Head(kept).x),
             predicted        |-> Head(kept).y,
             color_var        |-> color_var,
             variable         |-> variable,
             plot_group       |-> plot_group] >>
         \o tag_rows(Tail(kept), color_var, variable, plot_group)

pred_rows(line, color_var, variable, plot_group) ==
    tag_rows(masked(line), color_var, variable, plot_group)

Entry(kind, key, n, m) == [kind |-> kind, key |-> key, n |-> n, m |-> m]

\* variant: no handler, the exception of the fit leaves the function
exception_uncaught(fig) == fig.raises

\* try ... except Exception: every exception of the body is caught
exception_escapes(fig) == FALSE

\* The call returns a frame or None, prints at most one line, and lets no
\* exception out.  fig is what p.draw() does for this subset.
extract_smooth_data(subset, color_var, variable, plot_group, fig) ==
    IF too_small(subset)
    THEN [pred_df |-> None, printed |-> <<>>, escaped |-> FALSE]
    ELSE IF fig.raises
    THEN [pred_df |-> None,
          printed |-> IF exception_escapes(fig) THEN <<>>
                      ELSE << Entry("error", <<plot_group, variable, color_var>>, 0, 0) >>,
          escaped |-> exception_escapes(fig)]
    ELSE LET k == IF Len(fig.axes) > 0 THEN first_usable_line(fig.axes[1]) ELSE 0
         IN  IF k > 0
             THEN [pred_df |-> Frame(pred_rows(fig.axes[1][k], color_var, variable, plot_group)),
                   printed |-> <<>>, escaped |-> FALSE]
             ELSE [pred_df |-> None, printed |-> <<>>, escaped |-> FALSE]

----------------------------------------------------------------------------
(* History of the calls: what each subset was and what was drawn for it.   *)
(* Taken from the subset and the figure, not from the value returned.      *)

AllPoints(fig) == IF Len(fig.axes) > 0 THEN Flatten(fig.axes[1]) ELSE <<>>

InRange(p) == p.y >= Y_MIN /\ p.y <= Y_MAX

\* what the fit of a subset came to
Drew(drawn, fig) ==
    IF ~drawn THEN "notdrawn"
    ELSE IF fig.raises THEN "raised"
    ELSE IF AllPoints(fig) = <<>> THEN "nopoints"
    ELSE IF SelectSeq(AllPoints(fig), InRange) = <<>> THEN "outofrange"
    ELSE "inrange"

Attempt(key, subset, drawn, fig) ==
    [key    |-> key,
     nobs   |-> Len(subset),
     nonpos |-> \E i \in 1..Len(subset) : subset[i].train_label_size <= 0,
     drew   |-> Drew(drawn, fig)]

----------------------------------------------------------------------------
(* main(): combination and export *)

\* if pred_df is not None: all_predictions.append(pred_df); successful += 1
accumulate(preds, pred_df) ==
    IF pred_df.isNone THEN preds ELSE Append(preds, pred_df.rows)

\* variant: successful is incremented outside the if
count_every_call(n, pred_df) == n + 1

count_successful(n, pred_df) == IF pred_df.isNone THEN n ELSE n + 1

SameRow(a, b) ==
    /\ a.train_label_size = b.train_label_size
    /\ a.predicted = b.predicted
    /\ a.color_var = b.color_var
    /\ a.variable = b.variable
    /\ a.plot_group = b.plot_group

\* variant: drop_duplicates(subset=[the four sort columns])
RECURSIVE drop_duplicates_on_key(_)
drop_duplicates_on_key(rows) ==
    IF rows = <<>> THEN <<>>
    ELSE LET front == drop_duplicates_on_key(SubSeq(rows, 1, Len(rows) - 1))
             last  == rows[Len(rows)]
         IN  IF \E i \in 1..Len(front) :
                    /\ front[i].train_label_size = last.train_label_size
                    /\ front[i].color_var = last.color_var
                    /\ front[i].variable = last.variable
                    /\ front[i].plot_group = last.plot_group
             THEN front ELSE Append(front, last)

\* DataFrame.drop_duplicates(): keeps the first of the rows equal in all columns
RECURSIVE drop_duplicates(_)
drop_duplicates(rows) ==
    IF rows = <<>> THEN <<>>
    ELSE LET front == drop_duplicates(SubSeq(rows, 1, Len(rows) - 1))
             last  == rows[Len(rows)]
         IN  IF \E i \in 1..Len(front) : SameRow(front[i], last)
             THEN front ELSE Append(front, last)

\* variant: sort_values('train_label_size'), the key columns left out
sort_key_x_only(r) == <<r.train_label_size>>

\* the values of the four sort columns of a row, strings by their rank
SortKey(r) == <<Rank(r.plot_group), Rank(r.variable), Rank(r.color_var), r.train_label_size>>

RECURSIVE LexLess(_, _)
LexLess(a, b) ==
    IF a = <<>> THEN FALSE
    ELSE Head(a) < Head(b) \/ (Head(a) = Head(b) /\ LexLess(Tail(a), Tail(b)))

KeyLess(a, b) == LexLess(SortKey(a), SortKey(b))

\* variant: a sort that is not stable, a new row goes before its equals
insert_before_equals(sorted, r) ==
    LET n == Cardinality({ i \in 1..Len(sorted) : KeyLess(sorted[i], r) })
    IN  SubSeq(sorted, 1, n) \o <<r>> \o SubSeq(sorted, n + 1, Len(sorted))

\* the place of a new row in a sorted list: after every row that is not greater
insert_sorted(sorted, r) ==
    LET n == Cardinality({ i \in 1..Len(sorted) : ~KeyLess(r, sorted[i]) })
    IN  SubSeq(sorted, 1, n) \o <<r>> \o SubSeq(sorted, n + 1, Len(sorted))

\* sort_values(['plot_group', 'variable', 'color_var', 'train_label_size']):
\* ascending; a sort on several columns is a lexsort, which keeps ties in order
RECURSIVE sort_values(_)
sort_values(rows) ==
    IF rows = <<>> THEN <<>>
    ELSE insert_sorted(sort_values(SubSeq(rows, 1, Len(rows) - 1)), rows[Len(rows)])

\* predictions_df.drop_duplicates().sort_values([...])
normalize(rows) == sort_values(drop_duplicates(rows))

\* variant: the else branch falls through to return 0
return_zero(preds) == 0

\* return 0 after the export, return 1 when all_predictions is empty
return_code(preds) == IF preds # <<>> THEN 0 ELSE 1

\* print(f"Extracted {successful}/{total_combinations} combinations")
summary(n, m) == << Entry("summary", <<>>, n, m) >>

----------------------------------------------------------------------------
(* The state machine *)

Init ==
    /\ combined_df \in Datasets
    /\ pc = "loop"
    /\ pos = 1
    /\ all_predictions = <<>>
    /\ total_combinations = 0
    /\ successful = 0
    /\ predictions_df = <<>>
    /\ written = FALSE
    /\ ret = -1
    /\ log = <<>>
    /\ attempts = <<>>

NotDrawn == [raises |-> FALSE, axes |-> <<>>]

\* one pass of the innermost loop body of main()
Iterate ==
    /\ pc = "loop"
    /\ pos <= Len(Combinations(combined_df))
    /\ \E key \in { Combinations(combined_df)[pos] } :
       \E subset \in { subset_data(combined_df, key) } :
       \E fig \in IF too_small(subset) THEN { NotDrawn } ELSE DrawOutcomes :
       \E r \in { extract_smooth_data(subset, key[3], key[2], key[1], fig) } :
                 /\ total_combinations' = total_combinations + 1
                 /\ attempts' = Append(attempts, Attempt(key, subset, ~too_small(subset), fig))
                 /\ IF r.escaped
                    THEN /\ pc' = "crashed"
                         /\ UNCHANGED <<pos, all_predictions, successful, log>>
                    ELSE /\ pc' = "loop"
                         /\ pos' = pos + 1
                         /\ all_predictions' = accumulate(all_predictions, r.pred_df)
                         /\ successful' = count_successful(successful, r.pred_df)
                         /\ log' = log \o r.printed \o
                                   (IF r.pred_df.isNone THEN <<>>
                                    ELSE << Entry("ok", key, Len(r.pred_df.rows), 0) >>)
    /\ UNCHANGED <<combined_df, predictions_df, written, ret>>

\* after the loops: the summary line, then the combination and the export,
\* or the "No predictions extracted" exit
Finish ==
    /\ pc = "loop"
    /\ pos > Len(Combinations(combined_df))
    /\ pc' = "done"
    /\ ret' = return_code(all_predictions)
    /\ IF all_predictions # <<>>
       THEN /\ predictions_df' = normalize(concat(all_predictions))
            /\ written' = TRUE
            /\ log' = log \o summary(successful, total_combinations)
                          \o << Entry("exported", <<>>, Len(predictions_df'), 0) >>
       ELSE /\ UNCHANGED <<predictions_df, written>>
            /\ log' = log \o summary(successful, total_combinations)
                          \o << Entry("none", <<>>, 0, 0) >>
    /\ UNCHANGED <<combined_df, pos, all_predictions, total_combinations, successful,
                   attempts>>

Next == Iterate \/ Finish

Spec == Init /\ [][Next]_vars

----------------------------------------------------------------------------
(* Vocabulary of the properties *)

KeyOf(r) == <<r.plot_group, r.variable, r.color_var>>

Accumulated == concat(all_predictions)

Indices == 1..Len(attempts)

RowsOfKey(rows, key) == { i \in 1..Len(rows) : KeyOf(rows[i]) = key }

LoggedFor(key) == { i \in 1..Len(log) : log[i].key = key }

Fitted(i) == attempts[i].drew = "inrange"

Succeeded == { i \in Indices : Fitted(i) }

PredictedWithin(rows) ==
    \A i \in 1..Len(rows) : Y_MIN <= rows[i].predicted /\ rows[i].predicted <= Y_MAX

----------------------------------------------------------------------------
\* C1: every row of every accumulated frame and of the exported table has
\* Y_MIN <= predicted <= Y_MAX.
C1_PredictedInRange ==
    /\ \A k \in 1..Len(all_predictions) : PredictedWithin(all_predictions[k])
    /\ PredictedWithin(predictions_df)

\* a run that exported rows on both limits while one fit lay wholly outside
C1_Witness ==
    /\ written
    /\ \E i \in 1..Len(predictions_df) : predictions_df[i].predicted = Y_MIN
    /\ \E i \in 1..Len(predictions_df) : predictions_df[i].predicted = Y_MAX
    /\ \E i \in Indices : attempts[i].drew = "outofrange"

\* C2: a failing subset never ends the loop: main() never stops before the
\* last combination, every combination is attempted in turn, and the rows of
\* every subset that succeeded are in the exported table.
C2_FailureDoesNotAbort ==
    /\ pc # "crashed"
    /\ pc = "done" =>
         \A combos \in { Combinations(combined_df) } :
         \A acc \in { Accumulated } :
         /\ total_combinations = Len(combos)
         /\ Len(attempts) = Len(combos)
         /\ \A i \in Indices : attempts[i].key = combos[i]
         /\ \A i \in Succeeded :
               /\ RowsOfKey(acc, attempts[i].key) # {}
               /\ \A j \in RowsOfKey(acc, attempts[i].key) :
                     \E k \in 1..Len(predictions_df) : SameRow(predictions_df[k], acc[j])

\* a finished run in which a fit raised and a later subset was exported
C2_Witness ==
    /\ pc = "done" /\ written
    /\ \E i, j \in Indices :
          /\ i < j
          /\ attempts[i].drew = "raised"
          /\ Fitted(j)
          /\ RowsOfKey(predictions_df, attempts[j].key) # {}

NonPositive(i) == attempts[i].nobs >= MIN_ROWS /\ attempts[i].nonpos

\* C3 as stated: a subset of at least 3 observations with an x <= 0 is
\* excluded as a whole: it contributes no row to the exported table.
C3_NonPositiveExcluded ==
    pc = "done" =>
      \A i \in { k \in Indices : NonPositive(k) } :
          RowsOfKey(predictions_df, attempts[i].key) = {}

\* C3 amended: such a subset is fitted like any other; when its fit raises it
\* is excluded as a whole with one error line and the other subsets still
\* produce their rows; when its fit draws in-range points it contributes rows.
C3_NonPositiveIsFitted ==
    /\ \A i \in { k \in Indices : NonPositive(k) } : attempts[i].drew # "notdrawn"
    /\ pc = "done" =>
         \A i \in { k \in Indices : NonPositive(k) } :
            /\ attempts[i].drew = "raised" =>
                  /\ RowsOfKey(predictions_df, attempts[i].key) = {}
                  /\ Cardinality({ n \in LoggedFor(attempts[i].key) :
                                      log[n].kind = "error" }) = 1
                  /\ \A j \in Succeeded : RowsOfKey(predictions_df, attempts[j].key) # {}
            /\ Fitted(i) => RowsOfKey(predictions_df, attempts[i].key) # {}

\* a finished run where the fit of a subset with x = 0 raised and another
\* subset was exported
C3_Witness ==
    /\ pc = "done" /\ written
    /\ \E i, j \in Indices :
          /\ NonPositive(i) /\ attempts[i].drew = "raised"
          /\ Fitted(j) /\ ~attempts[j].nonpos
          /\ RowsOfKey(predictions_df, attempts[j].key) # {}

Small(i) == attempts[i].nobs < MIN_ROWS

\* C4 as stated: a subset of fewer than 3 observations is not fitted, gives
\* no row and no log line, and the counts tell it from a failed fit: the
\* subsets counted as attempted and not succeeded are the failed fits only.
C4_SkippedCountedApart ==
    pc = "done" =>
      /\ \A i \in { k \in Indices : Small(k) } :
            /\ attempts[i].drew = "notdrawn"
            /\ RowsOfKey(predictions_df, attempts[i].key) = {}
            /\ LoggedFor(attempts[i].key) = {}
      /\ total_combinations - successful =
            Cardinality({ i \in Indices : ~Small(i) /\ ~Fitted(i) })

\* C4 amended: a subset of fewer than 3 observations is not fitted, gives no
\* row and no log line; it is counted in total_combinations and not in
\* successful, exactly as a failed fit is, and there is no skipped count.
C4_SkippedLikeFailed ==
    /\ \A i \in { k \in Indices : Small(k) } :
          /\ attempts[i].drew = "notdrawn"
          /\ RowsOfKey(Accumulated, attempts[i].key) = {}
          /\ RowsOfKey(predictions_df, attempts[i].key) = {}
          /\ LoggedFor(attempts[i].key) = {}
    /\ total_combinations - successful =
          Cardinality({ i \in Indices : Small(i) \/ ~Fitted(i) })

\* a finished run with an empty subset, a subset of 2 rows and a fit that raised
C4_Witness ==
    /\ pc = "done"
    /\ \E i, j, k \in Indices :
          /\ attempts[i].nobs = 0
          /\ attempts[j].nobs = 2
          /\ attempts[k].drew = "raised"

Positive(i) == attempts[i].nobs >= MIN_ROWS /\ ~attempts[i].nonpos

\* C5 as stated: a subset of at least 3 observations, all x > 0, is in the
\* exported table unless its fit failed (raised, or drew no point).
C5_PresentUnlessFitFailed ==
    pc = "done" =>
      \A i \in { k \in Indices : Positive(k) } :
          attempts[i].drew \notin {"raised", "nopoints"} =>
              RowsOfKey(predictions_df, attempts[i].key) # {}

\* C5 amended: such a subset is in the exported table, is logged and is
\* counted as succeeded when its fit drew a point inside [Y_MIN, Y_MAX]; a
\* fit that drew points, all outside the limits, leaves no row and no log line.
C5_PresentWhenInRange ==
    /\ successful = Cardinality(Succeeded)
    /\ \A i \in Indices :
          /\ Fitted(i) =>
                /\ RowsOfKey(Accumulated, attempts[i].key) # {}
                /\ \E n \in LoggedFor(attempts[i].key) : log[n].kind = "ok"
                /\ pc = "done" => RowsOfKey(predictions_df, attempts[i].key) # {}
          /\ attempts[i].drew = "outofrange" =>
                /\ RowsOfKey(Accumulated, attempts[i].key) = {}
                /\ LoggedFor(attempts[i].key) = {}

\* a finished run with two all-positive subsets: one exported, one whose
\* fit drew points that all lay outside the limits
C5_Witness ==
    /\ pc = "done" /\ written
    /\ \E i, j \in Indices :
          /\ Positive(i) /\ Fitted(i)
          /\ RowsOfKey(predictions_df, attempts[i].key) # {}
          /\ Positive(j) /\ attempts[j].drew = "outofrange"

----------------------------------------------------------------------------
(* The exported table *)

Positions == 1..Len(predictions_df)

\* the order of the four sort columns, written out
KeyBefore(a, b) ==
    \/ Rank(a.plot_group) < Rank(b.plot_group)
    \/ /\ a.plot_group = b.plot_group
       /\ \/ Rank(a.variable) < Rank(b.variable)
          \/ /\ a.variable = b.variable
             /\ \/ Rank(a.color_var) < Rank(b.color_var)
                \/ /\ a.color_var = b.color_var
                   /\ a.train_label_size < b.train_label_size

KeyTie(a, b) == ~KeyBefore(a, b) /\ ~KeyBefore(b, a)

\* where a row first arrived in the accumulated collection
Arrival(r) == CHOOSE i \in 1..Len(Accumulated) :
                  /\ SameRow(Accumulated[i], r)
                  /\ \A j \in 1..(i - 1) : ~SameRow(Accumulated[j], r)

HasDuplicates(rows) == \E i, j \in 1..Len(rows) : i < j /\ SameRow(rows[i], rows[j])

HasTie(rows) ==
    \E i, j \in 1..Len(rows) :
        i < j /\ KeyTie(rows[i], rows[j]) /\ rows[i].predicted # rows[j].predicted

\* C6: the exported table holds every accumulated row exactly once: no two
\* of its rows agree in all five fields, and no accumulated row is missing.
C6_RowsUnique ==
    written =>
      /\ ~HasDuplicates(predictions_df)
      /\ \A i \in 1..Len(Accumulated) :
            \E k \in Positions : SameRow(predictions_df[k], Accumulated[i])
      /\ \A k \in Positions :
            \E i \in 1..Len(Accumulated) : SameRow(predictions_df[k], Accumulated[i])

\* an exported table made from a collection with a repeated row and with
\* two rows that differ in predicted only
C6_Witness ==
    /\ written
    /\ HasDuplicates(Accumulated)
    /\ HasTie(predictions_df)
    /\ Len(predictions_df) < Len(Accumulated)

\* C7: the exported table ascends in (plot_group, variable, color_var,
\* train_label_size), and rows that tie on these four stand in the order of
\* their arrival in the accumulated collection.
C7_SortedStable ==
    written =>
      \A i, j \in Positions :
          i < j => /\ ~KeyBefore(predictions_df[j], predictions_df[i])
                   /\ KeyTie(predictions_df[i], predictions_df[j]) =>
                         Arrival(predictions_df[i]) < Arrival(predictions_df[j])

\* an exported table with a tie on the key whose rows arrived out of order
C7_Witness ==
    /\ written
    /\ HasTie(predictions_df)
    /\ \E i, j \in 1..Len(Accumulated) :
          i < j /\ KeyBefore(Accumulated[j], Accumulated[i])

\* C8: normalizing is idempotent, on the accumulated collection at any time
\* and on the exported table: normalize(normalize(rows)) = normalize(rows).
C8_NormalizeIdempotent ==
    /\ \A once \in { normalize(Accumulated) } : normalize(once) = once
    /\ written => normalize(predictions_df) = predictions_df

\* an exported table whose collection had a repeated row, a tie and rows out
\* of order, so that both steps had work to do
C8_Witness ==
    /\ written
    /\ HasDuplicates(Accumulated)
    /\ HasTie(Accumulated)
    /\ predictions_df # Accumulated
    /\ \E i, j \in 1..Len(Accumulated) :
          i < j /\ KeyBefore(Accumulated[j], Accumulated[i])

\* C9: main() returns 1 and writes no table exactly when no subset gave
\* rows; when some subset gave rows the table is written and main() returns
\* 0, however many subsets failed.  Nothing is written or returned earlier.
C9_ExitStatus ==
    /\ pc # "done" => ret = -1 /\ ~written
    /\ pc = "done" =>
          IF Succeeded = {}
          THEN ret = 1 /\ ~written /\ predictions_df = <<>>
          ELSE ret = 0 /\ written /\ predictions_df # <<>>

\* a finished run in which every subset was passed over or failed
C9_Witness ==
    /\ pc = "done" /\ ret = 1 /\ ~written
    /\ \E i, j \in Indices :
          attempts[i].drew = "notdrawn" /\ attempts[j].drew \in {"raised", "outofrange"}

Summaries == { n \in 1..Len(log) : log[n].kind = "summary" }

\* C10: successful counts the accumulated frames, total_combinations the
\* calls made, 0 <= successful <= total_combinations throughout; no summary
\* is printed inside the loop; a finished run has printed one summary, N/M
\* with N the subsets that gave rows and M all combinations, after every
\* per-subset line and before the closing line.
C10_Summary ==
    /\ successful = Len(all_predictions)
    /\ successful = Cardinality(Succeeded)
    /\ total_combinations = Len(attempts)
    /\ 0 <= successful /\ successful <= total_combinations
    /\ pc # "done" => Summaries = {}
    /\ pc = "done" =>
          /\ Summaries = { Len(log) - 1 }
          /\ log[Len(log) - 1].n = Cardinality(Succeeded)
          /\ log[Len(log) - 1].m = Len(Combinations(combined_df))
          /\ log[Len(log)].kind \in {"exported", "none"}

\* a finished run that reported a partial success, 0 < N < M
C10_Witness ==
    /\ pc = "done" /\ ret = 0
    /\ 0 < successful /\ successful < total_combinations
    /\ \E i \in Indices : attempts[i].drew = "raised"

----------------------------------------------------------------------------
(* C11: the key and the x of an output row *)

\* the train_label_size values observed under a key in the input
ObservedX(key) ==
    { combined_df[i].train_label_size : i \in RowsOfKey(combined_df, key) }

MinOf(S) == CHOOSE m \in S : \A n \in S : m <= n
MaxOf(S) == CHOOSE m \in S : \A n \in S : n <= m

\* the key of a row is that of a subset of at least 3 observations whose fit
\* gave rows
FromFittedSubset(r) ==
    /\ Cardinality(RowsOfKey(combined_df, KeyOf(r))) >= MIN_ROWS
    /\ \E i \in Succeeded :
          attempts[i].key = KeyOf(r) /\ attempts[i].nobs >= MIN_ROWS

\* the rows held so far, and the exported ones
OutputRows ==
    { Accumulated[i] : i \in 1..Len(Accumulated) }
      \cup { predictions_df[i] : i \in Positions }

AscendingByX ==
    \A i, j \in Positions :
        i < j => predictions_df[i].train_label_size <= predictions_df[j].train_label_size

----------------------------------------------------------------------------
(* C12: which failures are logged *)

ErrorsFor(key) == { n \in LoggedFor(key) : log[n].kind = "error" }

\* a subset of at least 3 observations whose fit gave no rows
Fruitless(i) == attempts[i].nobs >= MIN_ROWS /\ ~Fitted(i)

\* the lines of later subsets come after line n
BeforeLater(i, n) ==
    \A j \in Indices : j > i => \A m \in LoggedFor(attempts[j].key) : n < m

\* C12 as stated: every subset of at least 3 observations that contributes no
\* rows, whether its fit raised, drew no point or drew only points outside
\* the y range, has an error line with its key in the log, printed before
\* the lines of any later subset.
C12_EveryFailureLogged ==
    pc # "crashed" =>
      \A i \in { k \in Indices : Fruitless(k) } :
          \E n \in ErrorsFor(attempts[i].key) : BeforeLater(i, n)

\* C12 amended: a subset whose fit raised has exactly one line in the log, an
\* error line with its key, printed before the lines of any later subset; a
\* subset whose fit drew no point, or only points outside the y range, has no
\* line in the log at all.
C12_OnlyRaisedLogged ==
    \A i \in { k \in Indices : Fruitless(k) } :
        IF attempts[i].drew = "raised"
        THEN /\ Cardinality(LoggedFor(attempts[i].key)) = 1
             /\ \E n \in ErrorsFor(attempts[i].key) : BeforeLater(i, n)
        ELSE /\ attempts[i].drew \in {"nopoints", "outofrange"}
             /\ LoggedFor(attempts[i].key) = {}

\* a finished run with a subset whose fit raised and was logged, and a later
\* one of at least 3 observations whose fit drew nothing, or only points out
\* of range, and left no line
C12_Witness ==
    /\ pc = "done"
    /\ \E i, j \in Indices :
          /\ i < j
          /\ attempts[i].drew = "raised"
          /\ ErrorsFor(attempts[i].key) # {}
          /\ attempts[j].drew \in {"nopoints", "outofrange"}
          /\ attempts[j].nobs >= MIN_ROWS
          /\ LoggedFor(attempts[j].key) = {}

----------------------------------------------------------------------------
(* C13: the order of processing *)

RECURSIVE RowsWithKey(_, _)
RowsWithKey(rows, key) ==
    IF rows = <<>> THEN <<>>
    ELSE (IF KeyOf(Head(rows)) = key THEN <<Head(rows)>> ELSE <<>>)
           \o RowsWithKey(Tail(rows), key)

\* what the call for the i-th subset returned
Returned(i) ==
    IF Fitted(i) THEN Frame(RowsWithKey(Accumulated, attempts[i].key)) ELSE None

\* the loop body of main() over a sequence of returned values
RECURSIVE Rerun(_, _)
Rerun(results, st) ==
    IF results = <<>> THEN st
    ELSE Rerun(Tail(results),
               [preds      |-> accumulate(st.preds, Head(results)),
                successful |-> count_successful(st.successful, Head(results)),
                total      |-> st.total + 1])

\* the table, the counts and the exit status that main() ends with
Outcome(results) ==
    LET st == Rerun(results, [preds |-> <<>>, successful |-> 0, total |-> 0])
    IN  [table      |-> IF st.preds # <<>> THEN normalize(concat(st.preds)) ELSE <<>>,
         successful |-> st.successful,
         total      |-> st.total,
         ret        |-> return_code(st.preds)]

\* the values returned, in the order of the calls, from the i-th on
RECURSIVE ReturnedFrom(_)
ReturnedFrom(i) ==
    IF i > Len(attempts) THEN <<>> ELSE <<Returned(i)>> \o ReturnedFrom(i + 1)

\* the values res taken in the order perm, from the i-th on
RECURSIVE InOrder(_, _, _)
InOrder(res, perm, i) ==
    IF i > Len(res) THEN <<>>
    ELSE <<res[perm[i]]>> \o InOrder(res, perm, i + 1)

\* C13: with the value returned for each subset held fixed, the loop of
\* main() run over the subsets in any order ends with the table, the
\* succeeded and attempted counts and the exit status of the actual run.
C13_OrderIndependent ==
    pc = "done" =>
      \A res \in { ReturnedFrom(1) } :
      \A permuted \in { InOrder(res, perm, 1) : perm \in Permutations(Indices) } :
          Outcome(permuted) =
              [table      |-> predictions_df,
               successful |-> successful,
               total      |-> total_combinations,
               ret        |-> ret]

\* a finished run with two fitted subsets that arrived against the sort
\* order, each with a row at the same x, and a subset that gave nothing
C13_Witness ==
    /\ pc = "done" /\ written
    /\ \E i, j \in Succeeded :
          /\ i < j
          /\ \E a \in RowsOfKey(Accumulated, attempts[i].key),
                b \in RowsOfKey(Accumulated, attempts[j].key) :
                /\ KeyBefore(Accumulated[b], Accumulated[a])
                /\ Accumulated[a].train_label_size = Accumulated[b].train_label_size
    /\ \E k \in Indices : ~Fitted(k)

----------------------------------------------------------------------------
(* C14: the order of the attempts *)

\* the first row of the input that belongs to group g and has value v in
\* column col
FirstSeen(g, col, v) ==
    CHOOSE i \in 1..Len(combined_df) :
        /\ combined_df[i].plot_group = g /\ combined_df[i][col] = v
        /\ \A j \in 1..(i - 1) :
              ~(combined_df[j].plot_group = g /\ combined_df[j][col] = v)

\* key a comes before key b: by the first appearance of the group, then of
\* the variable in the group, then of the color in the group
Earlier(a, b) ==
    \/ FirstSeen(a[1], "plot_group", a[1]) < FirstSeen(b[1], "plot_group", b[1])
    \/ /\ a[1] = b[1]
       /\ \/ FirstSeen(a[1], "variable", a[2]) < FirstSeen(b[1], "variable", b[2])
          \/ /\ a[2] = b[2]
             /\ FirstSeen(a[1], "color_var", a[3]) < FirstSeen(b[1], "color_var", b[3])

\* per group of the input, its variables times its colors
Discovered ==
    { key \in Range(Column(combined_df, "plot_group"))
                \X Range(Column(combined_df, "variable"))
                \X Range(Column(combined_df, "color_var")) :
        /\ \E j \in 1..Len(combined_df) :
              combined_df[j].plot_group = key[1] /\ combined_df[j].variable = key[2]
        /\ \E k \in 1..Len(combined_df) :
              combined_df[k].plot_group = key[1] /\ combined_df[k].color_var = key[3] }

Attempted == { attempts[i].key : i \in Indices }

\* C14: the attempts are made in the order of first appearance of the group,
\* then of the variable, then of the color; the keys attempted are, per
\* group of the input, its variables times its colors, each attempted once
\* and none passed over; an attempt is complete, counted and its rows
\* accumulated, before the next is made.
C14_DiscoveredOrder ==
    /\ \A i, j \in Indices : i < j => Earlier(attempts[i].key, attempts[j].key)
    /\ \A present \in { Discovered } :
          /\ Attempted \subseteq present
          /\ \A key \in present \ Attempted :
                \A i \in Indices : Earlier(attempts[i].key, key)
          /\ pc = "done" => Attempted = present
    /\ pc = "loop" => Len(attempts) = pos - 1
    /\ total_combinations = Len(attempts)
    /\ \A i \in Succeeded : RowsOfKey(Accumulated, attempts[i].key) # {}

\* a finished run over two groups that appear against the alphabet, the
\* first with two variables and two colors, so that combinations without a
\* single observation were attempted
C14_Witness ==
    /\ pc = "done"
    /\ Len(attempts) >= 5
    /\ Rank(attempts[1].key[1]) > Rank(attempts[Len(attempts)].key[1])
    /\ \E i \in Indices : attempts[i].key \notin Keys /\ attempts[i].nobs = 0
    /\ \E i, j \in Indices :
          /\ i < j /\ attempts[i].key[1] = attempts[j].key[1]
          /\ Rank(attempts[i].key[2]) > Rank(attempts[j].key[2])

====
